---- MODULE Spec2Model ----
(***************************************************************************)
(* Model of the three export scripts of parts_data:                        *)
(*   nvgpu.py / am_atgpu.py  - GPU listing: normalise, filter, dedup, sort  *)
(*   intcpu.py               - CPU listing: lookups, frequency formatting   *)
(* Python strings are modelled as sequences of one-character strings, so    *)
(* that strip, casefold, split, substring search and comparison are         *)
(* computed rather than assumed.  An Optional is None or Some(v).           *)
(***************************************************************************)
EXTENDS Integers, Sequences, FiniteSets, TLC

VARIABLES
    pc,          \* position of the running script
    exporter,    \* GPU: "nvidia" (nvgpu.py) or "amd" (am_atgpu.py)
    specs,       \* GPU: the raw records of db.specs, in iteration order
    pos,         \* GPU: number of records the generator has consumed
    yielded,     \* GPU: rows yielded so far, each with the index of its record
    rows,        \* dedup/sort: input rows of build_unique_sorted_rows
    result,      \* dedup/sort: its returned list (rows tagged with input index)
    written,     \* GPU: text handed to write_text, None before the write
    fmt_in,      \* _format_memory_capacity: argument
    fmt_tie,     \* _format_memory_capacity: side a decimal tie falls to in binary
    fmt_out,     \* _format_memory_capacity: returned string
    freqs_raw,   \* parse_freqs_to_str: argument
    ghz_vals,    \* parse_freqs_to_str: list ghz_vals
    unknown_parts, \* parse_freqs_to_str: list unknown_parts
    freq_out,    \* parse_freqs_to_str: returned string
    fs,          \* CPU: file system (input file, output file, output directory)
    cpu_names,   \* CPU: names read from the input file
    idx,         \* CPU: loop index of the running loop in build_lines
    lang,        \* CPU: index into WIKI_LANGS inside wikipedia_qid (from 1)
    name_to_qid, \* CPU: dict name_to_qid
    cpu_specs,   \* CPU: dict specs
    batches,     \* CPU: batches of qids still to fetch
    out_lines,   \* CPU: list out_lines
    requests,    \* CPU: number of HTTP requests issued
    failed_at    \* CPU: value of requests when a request failed, else 0

gpuVars  == <<exporter, specs, pos, yielded, written>>
rowVars  == <<rows, result>>
fmtVars  == <<fmt_in, fmt_tie, fmt_out>>
freqVars == <<freqs_raw, ghz_vals, unknown_parts, freq_out>>
cpuVars  == <<fs, cpu_names, idx, lang, name_to_qid, cpu_specs, batches,
              out_lines, requests, failed_at>>
vars == <<pc, gpuVars, rowVars, fmtVars, freqVars, cpuVars>>

\* Optional values: None, or Some(v) carrying v.
None == [none |-> TRUE]
Some(v) == [none |-> FALSE, v |-> v]

----------------------------------------------------------------------------
(* Strings *)

\* The characters used, in code point order (str comparison is by code point).
CodePoints ==
    <<" ", "+", "-", ".", "0", "1", "2", "3", "4", "5", "6", "7", "8", "9",
      ";", "?",
      "A", "B", "C", "D", "E", "F", "G", "H", "I", "J", "K", "L", "M",
      "N", "O", "P", "Q", "R", "S", "T", "U", "V", "W", "X", "Y", "Z",
      "a", "b", "c", "d", "e", "f", "g", "h", "i", "j", "k", "l", "m",
      "n", "o", "p", "q", "r", "s", "t", "u", "v", "w", "x", "y", "z",
      "|", "EN_DASH", "U+4E0D", "U+660E">>

Ord(c) == CHOOSE k \in 1..Len(CodePoints) : CodePoints[k] = c

UpperChars == <<"A", "B", "C", "D", "E", "F", "G", "H", "I", "J", "K", "L", "M",
                "N", "O", "P", "Q", "R", "S", "T", "U", "V", "W", "X", "Y", "Z">>
LowerChars == <<"a", "b", "c", "d", "e", "f", "g", "h", "i", "j", "k", "l", "m",
                "n", "o", "p", "q", "r", "s", "t", "u", "v", "w", "x", "y", "z">>

\* str.lower / str.casefold on one character (they agree on this alphabet).
LowerChar(c) ==
    IF \E k \in 1..Len(UpperChars) : UpperChars[k] = c
    THEN LowerChars[CHOOSE k \in 1..Len(UpperChars) : UpperChars[k] = c]
    ELSE c

StrLower(s) == [k \in 1..Len(s) |-> LowerChar(s[k])]

IsSpace(c) == c = " "

RECURSIVE LStrip(_)
LStrip(s) == IF s # <<>> /\ IsSpace(Head(s)) THEN LStrip(Tail(s)) ELSE s

RECURSIVE RStripChar(_, _)
RStripChar(s, c) ==
    IF s # <<>> /\ s[Len(s)] = c THEN RStripChar(SubSeq(s, 1, Len(s) - 1), c) ELSE s

\* str.strip()
Strip(s) == RStripChar(LStrip(s), " ")

\* m in n
Contains(n, m) ==
    \E off \in 0..(Len(n) - Len(m)) : SubSeq(n, off + 1, off + Len(m)) = m

\* s < t for Python strings
RECURSIVE StrLess(_, _)
StrLess(s, t) ==
    IF t = <<>> THEN FALSE
    ELSE IF s = <<>> THEN TRUE
    ELSE IF Head(s) = Head(t) THEN StrLess(Tail(s), Tail(t))
    ELSE Ord(Head(s)) < Ord(Head(t))

Digits == <<"0", "1", "2", "3", "4", "5", "6", "7", "8", "9">>
IsDigit(c) == \E k \in 1..10 : Digits[k] = c
DigitVal(c) == (CHOOSE k \in 1..10 : Digits[k] = c) - 1

\* str(n) for n >= 0
RECURSIVE NatStr(_)
NatStr(n) == IF n < 10 THEN <<Digits[n + 1]>> ELSE NatStr(n \div 10) \o <<Digits[(n % 10) + 1]>>

\* "%03d" % n for 0 <= n < 1000
Pad3(n) == <<Digits[(n \div 100) + 1], Digits[((n \div 10) % 10) + 1], Digits[(n % 10) + 1]>>

UNKNOWN == <<"U+4E0D", "U+660E">>
GB == <<"G", "B">>

----------------------------------------------------------------------------
(* _format_memory_capacity.  A float x is the pair [n, e] standing for       *)
(* n * 1e-4 + e * 1e-10 with |e| well below 1e6; a decimal tie of x at the   *)
(* third place falls up or down with its binary representation (tie).       *)

Num(n, e) == [none |-> FALSE, n |-> n, e |-> e]

\* x <= 0
NonPositive(x) == x.n < 0 \/ (x.n = 0 /\ x.e <= 0)

\* round(x): nearest integer, ties to even (x > 0)
RoundInt(x) ==
    LET q == x.n \div 10000
        r == x.n % 10000
    IN  IF r < 5000 \/ (r = 5000 /\ x.e < 0) THEN q
        ELSE IF r > 5000 \/ (r = 5000 /\ x.e > 0) THEN q + 1
        ELSE IF q % 2 = 0 THEN q ELSE q + 1

\* abs(x - k) < 1e-9
NearInt(x, k) == x.n = k * 10000 /\ -10 < x.e /\ x.e < 10

\* x rounded to thousandths, as f"{x:.3f}" rounds it (x > 0)
RoundMilli(x, tie) ==
    LET m == x.n \div 10
        d == x.n % 10
    IN  IF d < 5 \/ (d = 5 /\ x.e < 0) THEN m
        ELSE IF d > 5 \/ (d = 5 /\ x.e > 0) THEN m + 1
        ELSE IF tie = "up" THEN m + 1 ELSE m

\* f"{x:.3f}" of m thousandths
Fixed3(m) == NatStr(m \div 1000) \o <<".">> \o Pad3(m % 1000)

\* (mutant: the second rstrip is forgotten)
Mut_RStripZerosDot(s) == RStripChar(s, "0")

\* .rstrip("0").rstrip(".")
RStripZerosDot(s) == RStripChar(RStripChar(s, "0"), ".")

format_memory_capacity(x, tie) ==
    IF x.none THEN UNKNOWN
    ELSE IF NonPositive(x) THEN <<"0">> \o GB
    ELSE LET rounded == RoundInt(x)
         IN  IF NearInt(x, rounded) THEN NatStr(rounded) \o GB
             ELSE RStripZerosDot(Fixed3(RoundMilli(x, tie))) \o GB

----------------------------------------------------------------------------
(* parse_freqs_to_str.  A unit URI is one symbol of the string, named by its *)
(* QID.  A float is the exact decimal [m, k] standing for m * 10^-k.         *)

\* UNIT_TO_GHZ, as the power of ten each unit is below a gigahertz
UnitUris == {"Q3276763", "Q732707", "Q2143992", "Q39369"}
UnitShift(u) ==
    CASE u = "Q3276763" -> 0
      [] u = "Q732707"  -> 3
      [] u = "Q2143992" -> 6
      [] u = "Q39369"   -> 9

UNKNOWN_FREQ == <<"?">>
GHZ == <<"G", "H", "z">>

\* s.split(sep)
RECURSIVE Split(_, _)
Split(s, sep) ==
    IF \E k \in 1..Len(s) : s[k] = sep
    THEN LET k == CHOOSE j \in 1..Len(s) : s[j] = sep /\ \A h \in 1..(j - 1) : s[h] # sep
         IN  <<SubSeq(s, 1, k - 1)>> \o Split(SubSeq(s, k + 1, Len(s)), sep)
    ELSE <<s>>

\* sep.join(xs)
RECURSIVE Join(_, _)
Join(xs, sep) ==
    IF xs = <<>> THEN <<>>
    ELSE IF Len(xs) = 1 THEN xs[1]
    ELSE xs[1] \o <<sep>> \o Join(Tail(xs), sep)

\* s.replace(c, "")
Remove(s, c) == SelectSeq(s, LAMBDA ch : ch # c)

RECURSIVE DigitsToNat(_, _)
DigitsToNat(s, acc) ==
    IF s = <<>> THEN acc ELSE DigitsToNat(Tail(s), acc * 10 + DigitVal(Head(s)))

\* float(s) for the unsigned decimal numerals; None stands for ValueError
ParseFloat(s0) ==
    LET s == Strip(s0)
        ds == Remove(s, ".")
    IN  IF /\ ds # <<>>
           /\ \A k \in 1..Len(ds) : IsDigit(ds[k])
           /\ Len(s) - Len(ds) <= 1
        THEN LET p == IF Len(s) = Len(ds) THEN Len(s) + 1
                      ELSE 1 + CHOOSE k \in 1..Len(s) : s[k] = "."
             IN  Some([m |-> DigitsToNat(ds, 0), k |-> Len(s) + 1 - p])
        ELSE None

\* What one part of the split contributes: "skip" (blank), "unknown"
\* (appended to unknown_parts) or "ghz" with the value amount * mul.
PartOutcome(part) ==
    IF Strip(part) = <<>> THEN [kind |-> "skip"]
    ELSE IF ~\E k \in 1..Len(part) : part[k] = "|" THEN [kind |-> "unknown"]
    ELSE LET bar == CHOOSE j \in 1..Len(part) : part[j] = "|" /\ \A h \in 1..(j - 1) : part[h] # "|"
             amount_s == SubSeq(part, 1, bar - 1)
             unit == SubSeq(part, bar + 1, Len(part))
             amount == ParseFloat(Remove(amount_s, "+"))
         IN  IF amount.none THEN [kind |-> "unknown"]
             ELSE IF ~(Len(unit) = 1 /\ unit[1] \in UnitUris) THEN [kind |-> "unknown"]
             ELSE [kind |-> "ghz", m |-> amount.v.m, k |-> amount.v.k + UnitShift(unit[1])]

\* the for loop: the lists ghz_vals and unknown_parts after it
RECURSIVE ParseLoop(_, _, _)
ParseLoop(ps, ghz, unk) ==
    IF ps = <<>> THEN [ghz |-> ghz, unknown |-> unk]
    ELSE LET o == PartOutcome(Head(ps))
         IN  IF o.kind = "skip" THEN ParseLoop(Tail(ps), ghz, unk)
             ELSE IF o.kind = "unknown" THEN ParseLoop(Tail(ps), ghz, Append(unk, Head(ps)))
             ELSE ParseLoop(Tail(ps), Append(ghz, [m |-> o.m, k |-> o.k]), unk)

Pow10(k) == CASE k = 0 -> 1 [] k = 1 -> 10 [] k = 2 -> 100 [] k = 3 -> 1000
              [] k = 4 -> 10000 [] k = 5 -> 100000 [] k = 6 -> 1000000
              [] k = 7 -> 10000000 [] k = 8 -> 100000000

\* round(x, 3) in thousandths, for x = m * 10^-k with m < 10^8
Round3(x, tie) ==
    LET drop == x.k - 3
    IN  IF drop <= 0 THEN x.m * Pow10(-drop)
        ELSE IF drop > 8 THEN 0
        ELSE LET p == Pow10(drop)
                 q == x.m \div p
                 r == x.m % p
             IN  IF 2 * r < p THEN q
                 ELSE IF 2 * r > p THEN q + 1
                 ELSE IF tie = "up" THEN q + 1 ELSE q

\* sorted(set(xs)) of integers
RECURSIVE SortedSet(_)
SortedSet(S) ==
    IF S = {} THEN <<>>
    ELSE LET lo == CHOOSE x \in S : \A y \in S : x <= y
         IN  <<lo>> \o SortedSet(S \ {lo})

\* trim_float of x thousandths
trim_float(x) == RStripZerosDot(Fixed3(x))

\* (mutant: the second value instead of the last)
Mut_RenderFreqs(vals) ==
    IF Len(vals) = 1 THEN trim_float(vals[1]) \o GHZ
    ELSE trim_float(vals[1]) \o <<"EN_DASH">> \o trim_float(vals[2]) \o GHZ

\* lines 162-165: the string for the sorted rounded values
RenderFreqs(vals) ==
    IF Len(vals) = 1 THEN trim_float(vals[1]) \o GHZ
    ELSE trim_float(vals[1]) \o <<"EN_DASH">> \o trim_float(vals[Len(vals)]) \o GHZ

\* (mutant: the collected unknown parts instead of the input)
Mut_ReturnUnparsed(raw, unk) == Join(unk, ";")

\* line 168: nothing parsed
ReturnUnparsed(raw, unk) == raw

parse_freqs_to_str(raw, tie) ==
    IF raw = <<>> THEN UNKNOWN_FREQ
    ELSE LET l == ParseLoop(Split(raw, ";"), <<>>, <<>>)
         IN  IF l.ghz # <<>>
             THEN RenderFreqs(SortedSet({Round3(l.ghz[j], tie) : j \in 1..Len(l.ghz)}))
             ELSE ReturnUnparsed(raw, l.unknown)

----------------------------------------------------------------------------
(* build_unique_sorted_rows.  A row object is [idx, row]: the row's three    *)
(* strings and the position in the input of the object itself.              *)

Row(name, cap, type) == [name |-> name, memory_capacity |-> cap, memory_type |-> type]

\* key = (r.name, r.memory_capacity, r.memory_type)
DedupKey(r) == <<r.name, r.memory_capacity, r.memory_type>>

\* (mutant: unique[key] = r, the last occurrence replaces the first)
Mut_SetDefault(unique, obj) ==
    IF \E j \in 1..Len(unique) : DedupKey(unique[j].row) = DedupKey(obj.row)
    THEN [j \in 1..Len(unique) |->
            IF DedupKey(unique[j].row) = DedupKey(obj.row) THEN obj ELSE unique[j]]
    ELSE Append(unique, obj)

\* unique.setdefault(key, r) on the insertion-ordered dict
SetDefault(unique, obj) ==
    IF \E j \in 1..Len(unique) : DedupKey(unique[j].row) = DedupKey(obj.row)
    THEN unique
    ELSE Append(unique, obj)

\* the for loop of lines 74-76, from input position j on
RECURSIVE DedupFrom(_, _, _)
DedupFrom(rs, j, unique) ==
    IF j > Len(rs) THEN unique
    ELSE DedupFrom(rs, j + 1, SetDefault(unique, [idx |-> j, row |-> rs[j]]))

\* (mutant: the name is not folded)
Mut_sort_key(r) == <<r.name, r.memory_capacity, r.memory_type>>

\* sort_key
sort_key(r) == <<StrLower(r.name), r.memory_capacity, r.memory_type>>

\* a < b for tuples of three strings
TupleLess(a, b) ==
    \/ StrLess(a[1], b[1])
    \/ (a[1] = b[1] /\ StrLess(a[2], b[2]))
    \/ (a[1] = b[1] /\ a[2] = b[2] /\ StrLess(a[3], b[3]))

\* (mutant: an element goes before its equals, the sort is not stable)
RECURSIVE Mut_InsertStable(_, _)
Mut_InsertStable(sorted, obj) ==
    IF sorted = <<>> THEN <<obj>>
    ELSE IF ~TupleLess(sort_key(Head(sorted).row), sort_key(obj.row)) THEN <<obj>> \o sorted
    ELSE <<Head(sorted)>> \o Mut_InsertStable(Tail(sorted), obj)

\* sorted(xs, key=sort_key): stable, so an element goes after its equals
RECURSIVE InsertStable(_, _)
InsertStable(sorted, obj) ==
    IF sorted = <<>> THEN <<obj>>
    ELSE IF TupleLess(sort_key(obj.row), sort_key(Head(sorted).row)) THEN <<obj>> \o sorted
    ELSE <<Head(sorted)>> \o InsertStable(Tail(sorted), obj)

RECURSIVE SortedByKey(_, _)
SortedByKey(xs, acc) ==
    IF xs = <<>> THEN acc ELSE SortedByKey(Tail(xs), InsertStable(acc, Head(xs)))

build_unique_sorted_rows(rs) == SortedByKey(DedupFrom(rs, 1, <<>>), <<>>)

----------------------------------------------------------------------------
(* The GPU exporters: _row_from_spec, _is_console_gpu_name, the generators   *)
(* iter_nvidia_gpu_rows / iter_amd_ati_gpu_rows, write_rows and main.        *)

RawRecord(manufacturer, name, size, type) ==
    [manufacturer |-> manufacturer, name |-> name, memory_size_gb |-> size,
     memory_type |-> type]

\* x or default, for an Optional[str] x
OrElse(x, default) == IF x.none \/ x.v = <<>> THEN default ELSE x.v

\* _row_from_spec
row_from_spec(spec, tie) ==
    Row(Strip(OrElse(spec.name, <<>>)),
        format_memory_capacity(spec.memory_size_gb, tie),
        Strip(OrElse(spec.memory_type, UNKNOWN)))

\* console_markers of each exporter
console_markers(exp) ==
    IF exp = "nvidia"
    THEN {<<"p", "l", "a", "y", "s", "t", "a", "t", "i", "o", "n">>,
          <<"p", "s", "x">>,
          <<"x", "b", "o", "x">>,
          <<"s", "w", "i", "t", "c", "h">>,
          <<"n", "i", "n", "t", "e", "n", "d", "o">>,
          <<"t", "e", "g", "r", "a">>}
    ELSE {<<"p", "l", "a", "y", "s", "t", "a", "t", "i", "o", "n">>,
          <<"p", "s", "x">>,
          <<"x", "b", "o", "x">>,
          <<"s", "w", "i", "t", "c", "h">>,
          <<"n", "i", "n", "t", "e", "n", "d", "o">>,
          <<"x", "e", "n", "o", "s">>}

\* (mutant: the name is matched without casefold)
Mut_is_console_gpu_name(exp, name) ==
    \E m \in console_markers(exp) : Contains(name, m)

\* _is_console_gpu_name
is_console_gpu_name(exp, name) ==
    LET n == StrLower(name)
    IN  \E m \in console_markers(exp) : Contains(n, m)

\* spec.manufacturer != "NVIDIA" / not in {"AMD", "ATI"}, negated
AcceptsManufacturer(exp, manufacturer) ==
    IF exp = "nvidia" THEN manufacturer = "NVIDIA" ELSE manufacturer \in {"AMD", "ATI"}

\* to_line
to_line(r) ==
    <<"\"">> \o r.name \o <<"\"", " ", "\"">> \o r.memory_capacity \o <<" ">>
        \o r.memory_type \o <<"\"">>

\* "\n".join(lines) + ("\n" if lines else "")
FileText(lines) == Join(lines, "LF") \o (IF lines # <<>> THEN <<"LF">> ELSE <<>>)

----------------------------------------------------------------------------
(* The CPU exporter: read_cpu_list, chunked, build_lines.  A QID is a string *)
(* "Q1", "Q2"; dicts are functions on the set of their keys.                *)

\* read_cpu_list on the lines of the input file
RECURSIVE read_cpu_list(_)
read_cpu_list(lines) ==
    IF lines = <<>> THEN <<>>
    ELSE LET t == Strip(Head(lines))
         IN  IF t # <<>> /\ t[1] # "#" THEN <<t>> \o read_cpu_list(Tail(lines))
             ELSE read_cpu_list(Tail(lines))

WIKI_LANGS == <<"ja", "en">>
ChunkSize == 200

\* d[k] = v on a dict
DictSet(d, k, v) == [x \in DOMAIN d \cup {k} |-> IF x = k THEN v ELSE d[x]]
\* d.update(e)
DictUpdate(d, upd) == [x \in DOMAIN d \cup DOMAIN upd |-> IF x \in DOMAIN upd THEN upd[x] ELSE d[x]]
EmptyDict == [x \in {} |-> None]

\* sorted(set(xs)) of strings
RECURSIVE SortedStrSet(_)
SortedStrSet(S) ==
    IF S = {} THEN <<>>
    ELSE LET lo == CHOOSE x \in S : \A y \in S : ~StrLess(y, x)
         IN  <<lo>> \o SortedStrSet(S \ {lo})

\* qids_unique = sorted(set(q for q in name_to_qid.values() if q))
qids_unique(map) == SortedStrSet({map[n].v : n \in {x \in DOMAIN map : ~map[x].none}})

\* chunked(xs, n)
RECURSIVE chunked(_, _)
chunked(xs, n) ==
    IF xs = <<>> THEN <<>>
    ELSE IF Len(xs) <= n THEN <<xs>>
    ELSE <<SubSeq(xs, 1, n)>> \o chunked(SubSeq(xs, n + 1, Len(xs)), n)

\* (mutant: raise_for_status() is left out, the run goes on)
Mut_RaiseForStatus(ok, here) == here

\* r.raise_for_status() / r.json(): where the run is after the response
RaiseForStatus(ok, here) == IF ok THEN here ELSE "cpu_failed"

\* f"{cores if cores is not None else '?'}C{threads if threads is not None else '?'}T"
CoresThreads(cores, threads) ==
    (IF cores.none THEN <<"?">> ELSE NatStr(cores.v)) \o <<"C">>
        \o (IF threads.none THEN <<"?">> ELSE NatStr(threads.v)) \o <<"T">>

\* f"\"{name}\" \"{ct}\" \"{freq_str}\""
CpuLine(name, ct, freq) ==
    <<"\"">> \o name \o <<"\"", " ", "\"">> \o ct \o <<"\"", " ", "\"">> \o freq \o <<"\"">>

\* the body of the output loop (lines 198-211) for one name
OutLine(name, map, specmap, tie) ==
    IF name \notin DOMAIN map \/ map[name].none
    THEN CpuLine(name, <<"?", "C", "?", "T">>, <<"?">>)
    ELSE LET qid == map[name].v
             has == qid \in DOMAIN specmap
             cores == IF has THEN specmap[qid].cores ELSE None
             threads == IF has THEN specmap[qid].threads ELSE None
             raw == IF has THEN specmap[qid].freqs_raw ELSE <<>>
         IN  CpuLine(name, CoresThreads(cores, threads), parse_freqs_to_str(raw, tie))

\* (mutant: a name without a QID is skipped instead of written)
RECURSIVE Mut_BuildOutLines(_, _, _, _)
Mut_BuildOutLines(names, map, specmap, tie) ==
    IF names = <<>> THEN <<>>
    ELSE IF map[Head(names)].none THEN Mut_BuildOutLines(Tail(names), map, specmap, tie)
    ELSE <<OutLine(Head(names), map, specmap, tie)>>
            \o Mut_BuildOutLines(Tail(names), map, specmap, tie)

\* the output loop of build_lines (lines 196-213)
RECURSIVE BuildOutLines(_, _, _, _)
BuildOutLines(names, map, specmap, tie) ==
    IF names = <<>> THEN <<>>
    ELSE <<OutLine(Head(names), map, specmap, tie)>>
            \o BuildOutLines(Tail(names), map, specmap, tie)

----------------------------------------------------------------------------
(* Idle values of the variables a specification does not use *)

GpuIdle ==
    /\ exporter = "nvidia" /\ specs = <<>> /\ pos = 0 /\ yielded = <<>>
    /\ written = None
RowIdle == rows = <<>> /\ result = <<>>
FmtIdle == fmt_in = None /\ fmt_tie = "down" /\ fmt_out = <<>>
FreqIdle ==
    /\ freqs_raw = <<>> /\ ghz_vals = <<>>
    /\ unknown_parts = <<>> /\ freq_out = <<>>
CpuIdle ==
    /\ fs = [input |-> None, out |-> None, outdir |-> FALSE]
    /\ cpu_names = <<>> /\ idx = 0 /\ lang = 0
    /\ name_to_qid = EmptyDict /\ cpu_specs = EmptyDict /\ batches = <<>>
    /\ out_lines = <<>> /\ requests = 0 /\ failed_at = 0

----------------------------------------------------------------------------
(* SpecFmt: one call of _format_memory_capacity *)

MaxWhole == 12

\* fractional parts, in units of 1e-4
Fracs == {0, 1, 4, 5, 6, 10, 100, 1000, 1250, 4999, 5000, 5001, 5005, 9994, 9995, 9996, 9999}
\* offsets, in units of 1e-10, on both sides of the 1e-9 tolerance
Epsilons == {-11, -10, -9, -1, 0, 1, 9, 10, 11}

MemorySizes ==
    {None} \cup
    { Num(sg * (w * 10000 + f), sg * e) :
        sg \in {-1, 1}, w \in 0..MaxWhole, f \in Fracs, e \in Epsilons }

InitFmt ==
    /\ pc = "fmt_call"
    /\ fmt_in \in MemorySizes
    /\ fmt_tie \in {"down", "up"}
    /\ fmt_out = <<>>
    /\ GpuIdle /\ RowIdle /\ FreqIdle /\ CpuIdle

FormatCall ==
    /\ pc = "fmt_call"
    /\ fmt_out' = format_memory_capacity(fmt_in, fmt_tie)
    /\ pc' = "fmt_done"
    /\ UNCHANGED <<fmt_in, fmt_tie, gpuVars, rowVars, freqVars, cpuVars>>

NextFmt == FormatCall

SpecFmt == InitFmt /\ [][NextFmt]_vars

\* The decimal numeral s (digits, at most one point) in thousandths; -1 if
\* s is no such numeral or has more than three decimals.
RECURSIVE DigitsVal(_, _)
DigitsVal(s, acc) ==
    IF s = <<>> THEN acc
    ELSE IF IsDigit(Head(s)) THEN DigitsVal(Tail(s), acc * 10 + DigitVal(Head(s)))
    ELSE -1

PointAt(s) == IF \E k \in 1..Len(s) : s[k] = "." THEN CHOOSE k \in 1..Len(s) : s[k] = "." ELSE 0

Thousandths(s) ==
    LET p == PointAt(s)
        ip == IF p = 0 THEN s ELSE SubSeq(s, 1, p - 1)
        fp == IF p = 0 THEN <<>> ELSE SubSeq(s, p + 1, Len(s))
        fpad == fp \o [k \in 1..(3 - Len(fp)) |-> "0"]
    IN  IF ip = <<>> \/ Len(fp) > 3 \/ DigitsVal(ip, 0) < 0 \/ DigitsVal(fp, 0) < 0 THEN -1
        ELSE DigitsVal(ip, 0) * 1000 + DigitsVal(fpad, 0)

\* m thousandths is x rounded to three decimals: |x - m/1000| <= 0.0005
IsRounding3(x, m) ==
    LET d == x.n - 10 * m
    IN  (-5 < d /\ d < 5) \/ (d = 5 /\ x.e <= 0) \/ (d = -5 /\ x.e >= 0)

NumericPart(s) == SubSeq(s, 1, Len(s) - 2)

\* No trailing zero after a decimal point and no bare trailing point.
CleanNumeral(s) ==
    /\ s # <<>>
    /\ s[Len(s)] # "."
    /\ (PointAt(s) # 0 => s[Len(s)] # "0")

\* C9: _format_memory_capacity of a number: x <= 0 gives "0GB"; x within 1e-9
\* of an integer k gives k followed by "GB"; any other x gives x rounded to
\* three decimals followed by "GB"; the numeral never ends in a zero after a
\* decimal point nor in a bare point.
C9_FormatMemoryCapacity ==
    (pc = "fmt_done" /\ ~fmt_in.none) =>
        /\ Len(fmt_out) > 2 /\ SubSeq(fmt_out, Len(fmt_out) - 1, Len(fmt_out)) = GB
        /\ CleanNumeral(NumericPart(fmt_out))
        /\ NonPositive(fmt_in) => fmt_out = <<"0", "G", "B">>
        /\ \A k \in 0..(MaxWhole + 1) :
              (~NonPositive(fmt_in) /\ NearInt(fmt_in, k)) => fmt_out = NatStr(k) \o GB
        /\ (~NonPositive(fmt_in) /\ ~\E k \in 0..(MaxWhole + 1) : NearInt(fmt_in, k)) =>
              IsRounding3(fmt_in, Thousandths(NumericPart(fmt_out)))

\* C9 witness: a value that is neither <= 0 nor near an integer was formatted
\* with decimals stripped (8.5 -> "8.5GB").
C9_Witness ==
    /\ pc = "fmt_done"
    /\ fmt_in = Num(85000, 0)
    /\ fmt_out = <<"8", ".", "5", "G", "B">>

----------------------------------------------------------------------------
(* SpecFreq: one call of parse_freqs_to_str *)

MaxParts == 3

\* parts of a GROUP_CONCAT value: amounts in GHz, MHz, kHz and Hz, a signed
\* amount, a third-decimal tie, an unparsable and an empty amount, an
\* unrecognised unit, a part with no "|", a blank and an empty part
FreqParts ==
    { <<"2", ".", "7", "|", "Q3276763">>,
      <<"3", ".", "9", "|", "Q3276763">>,
      <<"+", "3", ".", "2", "0", "|", "Q3276763">>,
      <<"3", "6", "0", "0", "|", "Q732707">>,
      <<"2", "7", "0", "0", "|", "Q732707">>,
      <<"3", ".", "6", "0", "0", "4", "|", "Q3276763">>,
      <<"2", ".", "7", "0", "0", "5", "|", "Q3276763">>,
      <<"1", "|", "Q39369">>,
      <<"2", "5", "0", "0", "|", "Q2143992">>,
      <<"x", "|", "Q3276763">>,
      <<"|", "Q3276763">>,
      <<"2", ".", "7", "|", "Q0">>,
      <<"2", ".", "7">>,
      <<" ">>,
      <<>> }

RECURSIVE PartSeqs(_)
PartSeqs(n) ==
    IF n = 0 THEN {<<>>}
    ELSE PartSeqs(n - 1) \cup {Append(ps, p) : ps \in PartSeqs(n - 1), p \in FreqParts}

FreqInputs == {Join(ps, ";") : ps \in PartSeqs(MaxParts)}

InitFreq ==
    /\ pc = "freq_call"
    /\ freqs_raw \in FreqInputs
    /\ fmt_tie \in {"down", "up"}
    /\ ghz_vals = <<>> /\ unknown_parts = <<>> /\ freq_out = <<>>
    /\ fmt_in = None /\ fmt_out = <<>>
    /\ GpuIdle /\ RowIdle /\ CpuIdle

ParseFreqsCall ==
    /\ pc = "freq_call"
    /\ LET l == ParseLoop(Split(freqs_raw, ";"), <<>>, <<>>)
       IN  /\ ghz_vals' = (IF freqs_raw = <<>> THEN <<>> ELSE l.ghz)
           /\ unknown_parts' = (IF freqs_raw = <<>> THEN <<>> ELSE l.unknown)
    /\ freq_out' = parse_freqs_to_str(freqs_raw, fmt_tie)
    /\ pc' = "freq_done"
    /\ UNCHANGED <<freqs_raw, fmtVars, gpuVars, rowVars, cpuVars>>

NextFreq == ParseFreqsCall

SpecFreq == InitFreq /\ [][NextFreq]_vars

\* the parts of the input with a parsable amount and a recognised unit
ParsedParts(raw) ==
    LET ps == Split(raw, ";")
    IN  {ps[j] : j \in {h \in 1..Len(ps) : PartOutcome(ps[h]).kind = "ghz"}}

\* their values in gigahertz, rounded to three decimals (thousandths)
ParsedSet(raw, tie) ==
    {Round3([m |-> PartOutcome(p).m, k |-> PartOutcome(p).k], tie) : p \in ParsedParts(raw)}

SetMin(S) == CHOOSE x \in S : \A y \in S : x <= y
SetMax(S) == CHOOSE x \in S : \A y \in S : x >= y

\* s is the stripped decimal numeral of m thousandths
IsNumeralOf(s, m) == Thousandths(s) = m /\ CleanNumeral(s)

\* C7: when at least one part parses, the result is a function of the set of
\* parsed values in GHz rounded to three decimals: one value gives that value
\* followed by "GHz"; several give the minimum and the maximum joined by an
\* en-dash and followed by "GHz"; unparsed parts and intermediate values do
\* not appear.
C7_ParsedSetOnly ==
    (pc = "freq_done" /\ ParsedParts(freqs_raw) # {}) =>
        LET S == ParsedSet(freqs_raw, fmt_tie)
            n == Len(freq_out)
            body == SubSeq(freq_out, 1, n - 3)
        IN  /\ n > 3 /\ SubSeq(freq_out, n - 2, n) = GHZ
            /\ Cardinality(S) = 1 => IsNumeralOf(body, SetMin(S))
            /\ Cardinality(S) > 1 =>
                 \E d \in 1..Len(body) :
                    /\ body[d] = "EN_DASH"
                    /\ IsNumeralOf(SubSeq(body, 1, d - 1), SetMin(S))
                    /\ IsNumeralOf(SubSeq(body, d + 1, Len(body)), SetMax(S))

\* C7 witness: three parts, two parsed to different values and one unparsable
\* between them; the result is "2.7-3.9GHz" (with an en-dash).
C7_Witness ==
    /\ pc = "freq_done"
    /\ Len(ghz_vals) = 2 /\ Len(unknown_parts) = 1
    /\ freq_out = <<"2", ".", "7", "EN_DASH", "3", ".", "9", "G", "H", "z">>

\* C8: when no part parses, the result is the input verbatim, separators
\* included, and for the empty input it is the marker "?".
C8_UnparsedVerbatim ==
    (pc = "freq_done" /\ ParsedParts(freqs_raw) = {}) =>
        /\ freqs_raw = <<>> => freq_out = <<"?">>
        /\ freqs_raw # <<>> => freq_out = freqs_raw

\* C8 witness: an input of several parts, none parsed and one blank, came
\* back unchanged.
C8_Witness ==
    /\ pc = "freq_done"
    /\ ghz_vals = <<>> /\ Len(unknown_parts) = 2
    /\ Len(Split(freqs_raw, ";")) = 3
    /\ freq_out = freqs_raw

----------------------------------------------------------------------------
(* SpecRows: one call of build_unique_sorted_rows *)

MaxRows == 3

\* rows that differ only in the case of the name, only in the capacity
\* ("10GB", "2GB", "8GB", "8.0GB"), only in the memory type, and names whose
\* raw and case-folded orders differ ("RTX", "arc")
RowPool ==
    { Row(<<"R", "T", "X">>, <<"8", "G", "B">>, <<"G", "D", "D", "R", "6">>),
      Row(<<"r", "t", "x">>, <<"8", "G", "B">>, <<"G", "D", "D", "R", "6">>),
      Row(<<"R", "T", "X">>, <<"1", "0", "G", "B">>, <<"G", "D", "D", "R", "6">>),
      Row(<<"R", "T", "X">>, <<"2", "G", "B">>, <<"G", "D", "D", "R", "6">>),
      Row(<<"R", "T", "X">>, <<"8", "G", "B">>, <<"G", "D", "D", "R", "5">>),
      Row(<<"R", "T", "X">>, <<"8", ".", "0", "G", "B">>, <<"G", "D", "D", "R", "6">>),
      Row(<<"a", "r", "c">>, <<"8", "G", "B">>, <<"G", "D", "D", "R", "6">>) }

RECURSIVE RowSeqs(_)
RowSeqs(n) ==
    IF n = 0 THEN {<<>>}
    ELSE RowSeqs(n - 1) \cup {Append(rs, r) : rs \in RowSeqs(n - 1), r \in RowPool}

InitRows ==
    /\ pc = "rows_call"
    /\ rows \in RowSeqs(MaxRows)
    /\ result = <<>>
    /\ GpuIdle /\ FmtIdle /\ FreqIdle /\ CpuIdle

BuildUniqueSortedRowsCall ==
    /\ pc = "rows_call"
    /\ result' = build_unique_sorted_rows(rows)
    /\ pc' = "rows_done"
    /\ UNCHANGED <<rows, gpuVars, fmtVars, freqVars, cpuVars>>

NextRows == BuildUniqueSortedRowsCall

SpecRows == InitRows /\ [][NextRows]_vars

\* C2: the output holds no two rows with the same (name, memory_capacity,
\* memory_type) triple, every triple of the input exactly once and no other
\* triple, and the object kept for a triple is its first occurrence in the
\* input (so rows differing in any one string all survive).
C2_UniqueFirstWins ==
    pc = "rows_done" =>
        /\ \A a, b \in 1..Len(result) : a # b => result[a].row # result[b].row
        /\ \A k \in 1..Len(rows) :
              Cardinality({a \in 1..Len(result) : result[a].row = rows[k]}) = 1
        /\ \A a \in 1..Len(result) :
              /\ result[a].idx \in 1..Len(rows)
              /\ rows[result[a].idx] = result[a].row
              /\ \A k \in 1..(result[a].idx - 1) : rows[k] # result[a].row

\* C2 witness: an input whose first row is repeated after a row that differs
\* from it only in the case of the name: two rows survive, the first object
\* of the repeated row among them.
C2_Witness ==
    /\ pc = "rows_done"
    /\ Len(rows) = 3 /\ Len(result) = 2
    /\ rows[1] = rows[3] /\ rows[1] # rows[2]
    /\ StrLower(rows[1].name) = StrLower(rows[2].name)
    /\ \E a \in 1..2 : result[a].idx = 1

\* (lower-cased name, capacity, type) of a is not above that of b
KeyLeq(a, b) ==
    LET na == StrLower(a.name)
        nb == StrLower(b.name)
    IN  \/ StrLess(na, nb)
        \/ /\ na = nb
           /\ \/ StrLess(a.memory_capacity, b.memory_capacity)
              \/ /\ a.memory_capacity = b.memory_capacity
                 /\ ~StrLess(b.memory_type, a.memory_type)

\* C3: the output is non-decreasing under (name folded to lowercase,
\* memory_capacity, memory_type), the strings compared as raw strings.
C3_SortedByKey ==
    pc = "rows_done" =>
        \A a, b \in 1..Len(result) : a < b => KeyLeq(result[a].row, result[b].row)

\* C3 witness: "RTX" and "arc" came out as arc, RTX, and of the rows named
\* RTX the one with "10GB" came out before the one with "2GB".
C3_Witness ==
    /\ pc = "rows_done"
    /\ Len(result) = 3
    /\ result[1].row.name = <<"a", "r", "c">>
    /\ result[2].row.memory_capacity = <<"1", "0", "G", "B">>
    /\ result[3].row.memory_capacity = <<"2", "G", "B">>
    /\ rows[1].memory_capacity = <<"2", "G", "B">>
    /\ rows[2].memory_capacity = <<"1", "0", "G", "B">>
    /\ rows[3].name = <<"a", "r", "c">>

RowsOf(res) == [a \in 1..Len(res) |-> res[a].row]
RowSet(rs) == {rs[k] : k \in 1..Len(rs)}

\* Inputs with the same set of distinct rows as rs: its permutations, and
\* the permutations of rs with the repetitions removed.  (Any two inputs with
\* the same set of rows are linked through these.)
Distinct(rs) == RowsOf(DedupFrom(rs, 1, <<>>))
Permuted(rs) == {[k \in 1..Len(rs) |-> rs[f[k]]] : f \in Permutations(1..Len(rs))}
SameRowSetInputs(rs) == Permuted(rs) \cup Permuted(Distinct(rs))

\* C10 (as claimed): two inputs with the same set of distinct rows give the
\* same output sequence, also when two rows differ only in the case of the
\* name.
C10_OrderIndependent ==
    pc = "rows_done" =>
        \A other \in SameRowSetInputs(rows) :
            RowsOf(build_unique_sorted_rows(other)) = RowsOf(result)

\* two distinct rows whose names differ only in letter case, attributes equal
CaseTwins(r, t) ==
    /\ r # t
    /\ StrLower(r.name) = StrLower(t.name)
    /\ r.memory_capacity = t.memory_capacity
    /\ r.memory_type = t.memory_type

\* C10 (amended): two inputs with the same set of distinct rows give the same
\* output sequence provided no two distinct rows differ only in the letter
\* case of the name; rows that do differ only so come out in the order of
\* their first occurrences in the input.
C10_OrderIndependentUnlessCaseTwins ==
    pc = "rows_done" =>
        /\ (\A r, t \in RowSet(rows) : ~CaseTwins(r, t)) =>
              \A other \in SameRowSetInputs(rows) :
                  RowsOf(build_unique_sorted_rows(other)) = RowsOf(result)
        /\ \A a, b \in 1..Len(result) :
              (a < b /\ CaseTwins(result[a].row, result[b].row)) =>
                  result[a].idx < result[b].idx

\* C10 witness: an input with a repeated row, without case twins and not in
\* output order.
C10_Witness ==
    /\ pc = "rows_done"
    /\ Len(rows) = 3 /\ Len(result) = 2
    /\ \A r, t \in RowSet(rows) : ~CaseTwins(r, t)
    /\ RowsOf(result) # Distinct(rows)

----------------------------------------------------------------------------
(* SpecGpu: a run of main() of nvgpu.py or am_atgpu.py over db.specs *)

MaxSpecs == 2

GDDR6 == Some(<<"G", "D", "D", "R", "6">>)
RTX == Some(<<"R", "T", "X">>)

\* names: missing, blank, plain, padded, and one with each marker token
RecordNames ==
    { None,
      Some(<<" ">>),
      Some(<<"R", "T", "X">>),
      Some(<<" ", "R", "T", "X", " ">>),
      Some(<<"X", "b", "o", "x">>),
      Some(<<"a", "X", "B", "O", "X", "b">>),
      Some(<<"P", "l", "a", "y", "S", "t", "a", "t", "i", "o", "n">>),
      Some(<<"P", "S", "X">>),
      Some(<<"S", "w", "i", "t", "c", "h">>),
      Some(<<"N", "i", "n", "t", "e", "n", "d", "o">>),
      Some(<<"T", "e", "g", "r", "a">>),
      Some(<<"X", "e", "n", "o", "s">>) }

\* records varying the manufacturer, the name (for both exporters) and the
\* memory attributes (missing, empty, blank, padded, fractional)
RawRecords ==
    {RawRecord(m, RTX, Num(80000, 0), GDDR6) : m \in {"NVIDIA", "AMD", "ATI", "Intel", "nvidia"}}
    \cup {RawRecord(m, n, Num(80000, 0), GDDR6) : m \in {"NVIDIA", "AMD"}, n \in RecordNames}
    \cup {RawRecord("NVIDIA", RTX, sz, ty) :
            sz \in {None, Num(85000, 0)},
            ty \in {None, Some(<<>>), Some(<<" ">>), Some(<<"G", "D", "D", "R", "6", " ">>)}}

RECURSIVE RecordSeqs(_)
RecordSeqs(n) ==
    IF n = 0 THEN {<<>>}
    ELSE RecordSeqs(n - 1) \cup {Append(rs, r) : rs \in RecordSeqs(n - 1), r \in RawRecords}

InitGpu ==
    /\ pc = "gpu_iter"
    /\ exporter \in {"nvidia", "amd"}
    /\ specs \in RecordSeqs(MaxSpecs)
    /\ pos = 0 /\ yielded = <<>> /\ written = None
    /\ RowIdle /\ FmtIdle /\ FreqIdle /\ CpuIdle

\* the record the generator looks at next, and its row
CurSpec == specs[pos + 1]
CurRow == row_from_spec(CurSpec, fmt_tie)

Advance ==
    /\ pos' = pos + 1
    /\ UNCHANGED <<pc, exporter, specs, written, rowVars, fmtVars, freqVars, cpuVars>>

\* if spec.manufacturer != ...: continue
SkipManufacturer ==
    /\ pc = "gpu_iter" /\ pos < Len(specs)
    /\ ~AcceptsManufacturer(exporter, CurSpec.manufacturer)
    /\ UNCHANGED yielded
    /\ Advance

\* if not row.name: continue
SkipEmptyName ==
    /\ pc = "gpu_iter" /\ pos < Len(specs)
    /\ AcceptsManufacturer(exporter, CurSpec.manufacturer)
    /\ CurRow.name = <<>>
    /\ UNCHANGED yielded
    /\ Advance

\* if _is_console_gpu_name(row.name): continue
SkipConsole ==
    /\ pc = "gpu_iter" /\ pos < Len(specs)
    /\ AcceptsManufacturer(exporter, CurSpec.manufacturer)
    /\ CurRow.name # <<>>
    /\ is_console_gpu_name(exporter, CurRow.name)
    /\ UNCHANGED yielded
    /\ Advance

\* yield row
YieldRow ==
    /\ pc = "gpu_iter" /\ pos < Len(specs)
    /\ AcceptsManufacturer(exporter, CurSpec.manufacturer)
    /\ CurRow.name # <<>>
    /\ ~is_console_gpu_name(exporter, CurRow.name)
    /\ yielded' = Append(yielded, [idx |-> pos + 1, row |-> CurRow])
    /\ Advance

\* the generator is exhausted: build_unique_sorted_rows returns, write_rows
WriteRows ==
    /\ pc = "gpu_iter" /\ pos = Len(specs)
    /\ rows' = [k \in 1..Len(yielded) |-> yielded[k].row]
    /\ result' = build_unique_sorted_rows(rows')
    /\ written' = Some(FileText([k \in 1..Len(result') |-> to_line(result'[k].row)]))
    /\ pc' = "gpu_done"
    /\ UNCHANGED <<exporter, specs, pos, yielded, fmtVars, freqVars, cpuVars>>

NextGpu == SkipManufacturer \/ SkipEmptyName \/ SkipConsole \/ YieldRow \/ WriteRows

SpecGpu == InitGpu /\ [][NextGpu]_vars

\* record k of the input has yielded a row
HasYielded(k) == \E a \in 1..Len(yielded) : yielded[a].idx = k

NameOf(spec) == IF spec.name.none THEN <<>> ELSE spec.name.v

\* n contains m as a substring, letter case ignored
ContainsIgnoringCase(n, m) ==
    \E off \in 0..(Len(n) - Len(m)) :
        \A j \in 1..Len(m) : LowerChar(n[off + j]) = LowerChar(m[j])

\* the name with its leading and trailing blanks removed is not empty
HasVisibleChar(n) == \E j \in 1..Len(n) : n[j] # " "

\* C1: a consumed record has yielded a row if and only if its manufacturer is
\* accepted, its stripped name is non-empty and its name contains no marker of
\* the exporter, letter case ignored; a name containing "Xbox" in any case is
\* never yielded.
C1_YieldedIff ==
    \A k \in 1..pos :
        /\ HasYielded(k) <=>
              /\ AcceptsManufacturer(exporter, specs[k].manufacturer)
              /\ HasVisibleChar(NameOf(specs[k]))
              /\ \A m \in console_markers(exporter) : ~ContainsIgnoringCase(NameOf(specs[k]), m)
        /\ ContainsIgnoringCase(NameOf(specs[k]), <<"X", "b", "o", "x">>) => ~HasYielded(k)

\* C1 witness: of two records of an accepted manufacturer, the one named
\* "aXBOXb" was dropped and the padded " RTX " was yielded.
C1_Witness ==
    /\ pos = 2
    /\ AcceptsManufacturer(exporter, specs[1].manufacturer)
    /\ NameOf(specs[1]) = <<"a", "X", "B", "O", "X", "b">>
    /\ NameOf(specs[2]) = <<" ", "R", "T", "X", " ">>
    /\ ~HasYielded(1) /\ HasYielded(2)

\* C4: every row the pipeline retains has a non-empty name, memory_capacity
\* and memory_type.
C4_FieldsNonEmpty ==
    \A a \in 1..Len(yielded) :
        /\ yielded[a].row.name # <<>>
        /\ yielded[a].row.memory_capacity # <<>>
        /\ yielded[a].row.memory_type # <<>>

----------------------------------------------------------------------------
(* SpecCpu: a run of main() of intcpu.py.  Every HTTP response is chosen by  *)
(* the environment: an error status or malformed body, a page without a     *)
(* QID, a QID, the bindings of a query.                                     *)

MaxLines == 2

\* lines of the input file: two names, one of them padded as well, a comment
\* and a blank line
InputLines ==
    { <<"i", "5">>, <<" ", "i", "5", " ">>, <<"i", "7">>, <<"#", "c">>, <<" ">> }

RECURSIVE LineSeqs(_)
LineSeqs(n) ==
    IF n = 0 THEN {<<>>}
    ELSE LineSeqs(n - 1) \cup {Append(ls, l) : ls \in LineSeqs(n - 1), l \in InputLines}

Qids == { <<"Q", "1">>, <<"Q", "2">> }

\* what the query service may return for one item
ItemSpecs ==
    { [cores |-> Some(4), threads |-> Some(8),
       freqs_raw |-> <<"2", ".", "7", "|", "Q3276763", ";", "3", ".", "9", "|", "Q3276763">>],
      [cores |-> None, threads |-> None, freqs_raw |-> <<>>] }

\* the contents of the output file before the run
OldText == <<"o", "l", "d", "LF">>

InitCpu ==
    /\ pc = "cpu_start"
    /\ \E inp \in {None} \cup {Some(ls) : ls \in LineSeqs(MaxLines)},
          before \in {[out |-> None, outdir |-> FALSE], [out |-> None, outdir |-> TRUE],
                      [out |-> Some(OldText), outdir |-> TRUE]} :
          fs = [input |-> inp, out |-> before.out, outdir |-> before.outdir]
    /\ cpu_names = <<>> /\ idx = 0 /\ lang = 0
    /\ name_to_qid = EmptyDict /\ cpu_specs = EmptyDict /\ batches = <<>>
    /\ out_lines = <<>> /\ requests = 0 /\ failed_at = 0
    /\ written = None
    /\ exporter = "nvidia" /\ specs = <<>> /\ pos = 0 /\ yielded = <<>>
    /\ RowIdle /\ FmtIdle /\ FreqIdle

cpuRest == <<exporter, specs, pos, yielded, rowVars, fmtVars, freqVars>>

\* if not in_path.exists(): raise SystemExit(...)
InputMissing ==
    /\ pc = "cpu_start" /\ fs.input.none
    /\ pc' = "cpu_exit"
    /\ UNCHANGED <<cpuVars, written, cpuRest>>

\* cpu_names = read_cpu_list(in_path); build_lines starts
ReadInput ==
    /\ pc = "cpu_start" /\ ~fs.input.none
    /\ cpu_names' = read_cpu_list(fs.input.v)
    /\ idx' = 1 /\ lang' = 1
    /\ pc' = "cpu_lookup"
    /\ UNCHANGED <<fs, name_to_qid, cpu_specs, batches, out_lines, requests, failed_at,
                   written, cpuRest>>

InLookup == pc = "cpu_lookup" /\ idx <= Len(cpu_names)

\* requests.get in wikipedia_qid fails: raise_for_status() or r.json() raises
LookupFails ==
    /\ InLookup
    /\ requests' = requests + 1
    /\ failed_at' = requests'
    /\ pc' = RaiseForStatus(FALSE, pc)
    /\ UNCHANGED <<fs, cpu_names, idx, lang, name_to_qid, cpu_specs, batches, out_lines,
                   written, cpuRest>>

\* the page has a wikibase_item: return (qid, lang); name_to_qid[name] = qid
LookupHit ==
    /\ InLookup
    /\ \E q \in Qids : name_to_qid' = DictSet(name_to_qid, cpu_names[idx], Some(q))
    /\ requests' = requests + 1
    /\ idx' = idx + 1 /\ lang' = 1
    /\ pc' = RaiseForStatus(TRUE, pc)
    /\ UNCHANGED <<fs, cpu_names, cpu_specs, batches, out_lines, failed_at, written, cpuRest>>

\* no page with a QID in this language: the next language, or return None
LookupMiss ==
    /\ InLookup
    /\ requests' = requests + 1
    /\ IF lang < Len(WIKI_LANGS)
       THEN lang' = lang + 1 /\ UNCHANGED <<idx, name_to_qid>>
       ELSE /\ name_to_qid' = DictSet(name_to_qid, cpu_names[idx], None)
            /\ idx' = idx + 1 /\ lang' = 1
    /\ pc' = RaiseForStatus(TRUE, pc)
    /\ UNCHANGED <<fs, cpu_names, cpu_specs, batches, out_lines, failed_at, written, cpuRest>>

\* the lookup loop is over: qids_unique and its batches
CollectQids ==
    /\ pc = "cpu_lookup" /\ idx > Len(cpu_names)
    /\ batches' = chunked(qids_unique(name_to_qid), ChunkSize)
    /\ pc' = "cpu_fetch"
    /\ UNCHANGED <<fs, cpu_names, idx, lang, name_to_qid, cpu_specs, out_lines, requests,
                   failed_at, written, cpuRest>>

\* requests.get in wdqs_fetch_specs fails
FetchFails ==
    /\ pc = "cpu_fetch" /\ batches # <<>>
    /\ requests' = requests + 1
    /\ failed_at' = requests'
    /\ pc' = RaiseForStatus(FALSE, pc)
    /\ UNCHANGED <<fs, cpu_names, idx, lang, name_to_qid, cpu_specs, batches, out_lines,
                   written, cpuRest>>

\* specs.update(wdqs_fetch_specs(batch)): bindings for some items of the batch
FetchBatch ==
    /\ pc = "cpu_fetch" /\ batches # <<>>
    /\ \E got \in SUBSET {Head(batches)[j] : j \in 1..Len(Head(batches))} :
          \E out \in [got -> ItemSpecs] : cpu_specs' = DictUpdate(cpu_specs, out)
    /\ batches' = Tail(batches)
    /\ requests' = requests + 1
    /\ pc' = RaiseForStatus(TRUE, pc)
    /\ UNCHANGED <<fs, cpu_names, idx, lang, name_to_qid, out_lines, failed_at, written,
                   cpuRest>>

\* the output loop; build_lines returns
BuildOutput ==
    /\ pc = "cpu_fetch" /\ batches = <<>>
    /\ out_lines' = BuildOutLines(cpu_names, name_to_qid, cpu_specs, fmt_tie)
    /\ pc' = "cpu_write"
    /\ UNCHANGED <<fs, cpu_names, idx, lang, name_to_qid, cpu_specs, batches, requests,
                   failed_at, written, cpuRest>>

\* out_path.parent.mkdir(parents=True, exist_ok=True); out_path.write_text(...)
WriteOutput ==
    /\ pc = "cpu_write"
    /\ written' = Some(FileText(out_lines))
    /\ fs' = [fs EXCEPT !.outdir = TRUE, !.out = written']
    /\ pc' = "cpu_done"
    /\ UNCHANGED <<cpu_names, idx, lang, name_to_qid, cpu_specs, batches, out_lines,
                   requests, failed_at, cpuRest>>

NextCpu ==
    \/ InputMissing \/ ReadInput
    \/ LookupFails \/ LookupHit \/ LookupMiss \/ CollectQids
    \/ FetchFails \/ FetchBatch \/ BuildOutput \/ WriteOutput

SpecCpu == InitCpu /\ [][NextCpu]_vars

\* C5: the output file and its directory change only in the write that
\* follows the last lookup and fetch, none of which failed; a missing input
\* or a failed request ends the run at once, with no further request and no
\* write.
C5_NoPartialOutput ==
    /\ [][(fs' # fs) =>
            /\ pc = "cpu_write" /\ failed_at = 0
            /\ idx > Len(cpu_names) /\ batches = <<>>]_vars
    /\ [][(failed_at' # 0 /\ failed_at = 0) => (pc' = "cpu_failed" /\ fs' = fs)]_vars
    /\ [][pc \notin {"cpu_exit", "cpu_failed"}]_vars
    /\ [](pc \in {"cpu_exit", "cpu_failed"} => written.none)
    /\ [](fs.input.none => pc \in {"cpu_start", "cpu_exit"})

\* C5 witness: the fetch failed after a completed lookup, with an older output
\* file in place and untouched.
C5_Witness ==
    /\ pc = "cpu_failed"
    /\ failed_at = requests /\ requests > 1
    /\ batches # <<>>
    /\ fs.out = Some(OldText) /\ written.none

\* line begins with the quoted name
BeginsQuoted(line, name) ==
    /\ Len(line) >= Len(name) + 2
    /\ SubSeq(line, 1, Len(name) + 2) = <<"\"">> \o name \o <<"\"">>

\* C6: build_lines returns one line per input name, the i-th beginning with
\* the quoted i-th name, repeated and unresolved names included; a name with
\* no resolved identifier gives the line with "?C?T" and "?".
C6_OneLinePerName ==
    pc \in {"cpu_write", "cpu_done"} =>
        /\ Len(out_lines) = Len(cpu_names)
        /\ \A j \in 1..Len(cpu_names) :
              /\ BeginsQuoted(out_lines[j], cpu_names[j])
              /\ name_to_qid[cpu_names[j]].none =>
                    out_lines[j] = <<"\"">> \o cpu_names[j]
                        \o <<"\"", " ", "\"", "?", "C", "?", "T", "\"", " ", "\"", "?", "\"">>

\* C6 witness: the same name twice, resolved, and both lines written.
C6_Witness ==
    /\ pc = "cpu_done"
    /\ Len(cpu_names) = 2 /\ cpu_names[1] = cpu_names[2]
    /\ ~name_to_qid[cpu_names[1]].none
    /\ Len(out_lines) = 2 /\ out_lines[1] = out_lines[2]

====
